---- MODULE Spec2Model ----
(***************************************************************************)
(* Model of SiteDownloader (src/download.py): the recursive link traversal *)
(* parse_links, the persist routine download, and the two-phase run.       *)
(* URLs are strings; the string functions the code uses (split, replace,   *)
(* startswith, endswith, urlparse, geturl) are computed character by       *)
(* character.  The recursion of parse_links is an explicit call stack.     *)
(***************************************************************************)
EXTENDS Integers, Sequences, FiniteSets, Bags, TLC

(***************************************************************************)
(* Bounds of the model.                                                    *)
(***************************************************************************)
MaxDepthBound == 2
MaxDownloadBound == 2

(***************************************************************************)
(* Optional values: None is the empty tuple, a value x is <<x>>.           *)
(***************************************************************************)
None == <<>>
Some(x) == <<x>>
IsNone(o) == o = <<>>
Val(o) == o[1]

\* Python truth value of an Optional[int]: None and 0 are both false.
TruthyInt(o) == (~IsNone(o)) /\ Val(o) # 0

(***************************************************************************)
(* Python string functions.                                                *)
(***************************************************************************)
\* s.find(sub) + 1: the first position of sub in s, 0 when absent.
Find(s, sub) ==
    LET n == Len(sub)
        hits == {i \in 1..(Len(s) - n + 1) : SubSeq(s, i, i + n - 1) = sub}
    IN  IF hits = {} THEN 0 ELSE CHOOSE i \in hits : \A j \in hits : i <= j

\* s.rfind(sub) + 1: the last position of sub in s, 0 when absent.
RFind(s, sub) ==
    LET n == Len(sub)
        hits == {i \in 1..(Len(s) - n + 1) : SubSeq(s, i, i + n - 1) = sub}
    IN  IF hits = {} THEN 0 ELSE CHOOSE i \in hits : \A j \in hits : i >= j

Contains(s, sub) == Find(s, sub) # 0

StartsWith(s, p) == Len(p) <= Len(s) /\ SubSeq(s, 1, Len(p)) = p

EndsWith(s, p) == Len(p) <= Len(s) /\ SubSeq(s, Len(s) - Len(p) + 1, Len(s)) = p

\* s.split(d)[0]
SplitHead(s, d) ==
    LET i == Find(s, d) IN IF i = 0 THEN s ELSE SubSeq(s, 1, i - 1)

\* s.split(d)[-1]
SplitLast(s, d) ==
    LET i == RFind(s, d) IN IF i = 0 THEN s ELSE SubSeq(s, i + Len(d), Len(s))

\* The rest of s after the first d ("" when d is absent).
AfterFirst(s, d) ==
    LET i == Find(s, d) IN IF i = 0 THEN "" ELSE SubSeq(s, i + Len(d), Len(s))

\* s.replace(old, new) with old non-empty: every non-overlapping occurrence,
\* left to right.
RECURSIVE StrReplace(_, _, _)
StrReplace(s, old, new) ==
    LET i == Find(s, old)
    IN  IF i = 0 THEN s
        ELSE SubSeq(s, 1, i - 1) \o new
               \o StrReplace(SubSeq(s, i + Len(old), Len(s)), old, new)

(***************************************************************************)
(* urllib.parse.urlparse: scheme, netloc, path, query, fragment.           *)
(***************************************************************************)
SchemeChars == {"h", "t", "p", "s", "f", "+", "-", "."}

UrlScheme(u) ==
    LET i == Find(u, ":")
    IN  IF i > 1 /\ \A j \in 1..(i - 1) : SubSeq(u, j, j) \in SchemeChars
        THEN SubSeq(u, 1, i - 1) ELSE ""

\* What follows "scheme:".
UrlAfterScheme(u) ==
    IF UrlScheme(u) = "" THEN u ELSE SubSeq(u, Len(UrlScheme(u)) + 2, Len(u))

\* The first position in s of one of "/", "?", "#"; Len(s) + 1 when none.
NetlocEnd(s) ==
    LET hits == {i \in 1..Len(s) : SubSeq(s, i, i) \in {"/", "?", "#"}}
    IN  IF hits = {} THEN Len(s) + 1
        ELSE CHOOSE i \in hits : \A j \in hits : i <= j

UrlNetloc(u) ==
    LET r == UrlAfterScheme(u)
    IN  IF StartsWith(r, "//")
        THEN LET t == SubSeq(r, 3, Len(r)) IN SubSeq(t, 1, NetlocEnd(t) - 1)
        ELSE ""

\* What follows the netloc: path, query and fragment.
UrlAfterNetloc(u) ==
    LET r == UrlAfterScheme(u)
    IN  IF StartsWith(r, "//")
        THEN LET t == SubSeq(r, 3, Len(r)) IN SubSeq(t, NetlocEnd(t), Len(t))
        ELSE r

UrlFragment(u) == AfterFirst(UrlAfterNetloc(u), "#")

UrlQuery(u) == AfterFirst(SplitHead(UrlAfterNetloc(u), "#"), "?")

UrlPath(u) == SplitHead(SplitHead(UrlAfterNetloc(u), "#"), "?")

\* "&".join(f"{k}={v}" for k, v in params.items())
RECURSIVE JoinParams(_)
JoinParams(ps) ==
    IF ps = <<>> THEN ""
    ELSE ps[1][1] \o "=" \o ps[1][2]
           \o (IF Len(ps) = 1 THEN "" ELSE "&" \o JoinParams(Tail(ps)))

\* urlparse(u)._replace(query=q).geturl(), for a url with a netloc.
ReplaceQuery(u, q) ==
    LET p == UrlPath(u)
    IN  (IF UrlScheme(u) = "" THEN "" ELSE UrlScheme(u) \o ":")
          \o "//" \o UrlNetloc(u)
          \o (IF p # "" /\ ~StartsWith(p, "/") THEN "/" \o p ELSE p)
          \o (IF q = "" THEN "" ELSE "?" \o q)
          \o (IF UrlFragment(u) = "" THEN "" ELSE "#" \o UrlFragment(u))

(***************************************************************************)
(* State.  The configuration (the fields set by __init__) and the web are  *)
(* fixed during a run; links and download_links are the two sets of run;   *)
(* stack is the chain of active parse_links calls, innermost last.         *)
(***************************************************************************)
VARIABLES
    bootstrap_urls,       \* list of seed urls
    download_filter,      \* the predicate, as [kind, arg]
    followable_domains,   \* list of hosts, as a set
    followable_paths,     \* None or Some(list of rules)
    max_depth,            \* None or Some(n)
    max_download,         \* None or Some(n)
    ignore_query_params,
    ignore_fragment,
    ignore_paths,         \* list of path prefixes
    extra_query_params,   \* list of <<key, value>>, empty when not given
    web,                  \* what session.get answers, per url
    phase,                \* "parse", "download", "done" or "raised"
    error,                \* the exception that ended the run, "" when none
    seed,                 \* index of the next seed of the loop of run
    stack,                \* frames [url, depth, pc, todo] of parse_links
    links,                \* the set links of run (visited)
    download_links,       \* the set download_links of run
    pending,              \* download_links not yet iterated by run
    files,                \* the save directory: file name -> content
    fetches,              \* history: bag of requests of parse_links
    calls,                \* history: bag of calls of parse_links
    filtered,             \* history: bag of arguments given to download_filter
    attempts              \* history: bag of calls of download

config == <<bootstrap_urls, download_filter, followable_domains,
            followable_paths, max_depth, max_download, ignore_query_params,
            ignore_fragment, ignore_paths, extra_query_params, web>>

history == <<fetches, calls, filtered, attempts>>

vars == <<config, phase, error, seed, stack, links, download_links, pending,
          files, history>>

(***************************************************************************)
(* The responses of the fetch collaborator.                                *)
(***************************************************************************)
Page(ls) == [status |-> 200, ctype |-> Some("text/html"), links |-> ls]
Doc == [status |-> 200, ctype |-> Some("application/pdf"), links |-> {}]
NotFound(ls) == [status |-> 404, ctype |-> Some("text/html"), links |-> ls]
NoType(ls) == [status |-> 200, ctype |-> None, links |-> ls]

\* session.get(url): the server answers by scheme, host and path; a url it
\* does not serve answers 404.
Get(url) ==
    LET key == SplitHead(SplitHead(url, "#"), "?")
    IN  IF key \in DOMAIN web THEN web[key] ELSE NotFound({})

(***************************************************************************)
(* The steps of parse_links, as functions of the configuration.            *)
(***************************************************************************)
\* The depth guard with > in place of >=.
DepthGuardLate(depth) == TruthyInt(max_depth) /\ depth > Val(max_depth)

\* if self.max_depth and depth >= self.max_depth
DepthGuard(depth) == TruthyInt(max_depth) /\ depth >= Val(max_depth)

\* The volume guard with > in place of >=.
VolumeGuardLate(dl) == TruthyInt(max_download) /\ Cardinality(dl) > Val(max_download)

\* if self.max_download and len(download_links) >= self.max_download
VolumeGuard(dl) == TruthyInt(max_download) /\ Cardinality(dl) >= Val(max_download)

\* The loop without its volume check.
VolumeRecheckOff(dl) == FALSE

\* The same test again at the top of every iteration of the loop: break
VolumeRecheck(dl) == VolumeGuard(dl)

\* urlparse(url).netloc in self.followable_domains
DomainAdmitted(url) == UrlNetloc(url) \in followable_domains

\* The url requested with the extra query params added to its own query.
RequestUrlMerged(url) ==
    IF extra_query_params # <<>>
    THEN ReplaceQuery(url, (IF UrlQuery(url) = "" THEN ""
                                ELSE UrlQuery(url) \o "&")
                             \o JoinParams(extra_query_params))
    ELSE url

\* The url requested: the query is replaced by the extra query params.
RequestUrl(url) ==
    IF extra_query_params # <<>>
    THEN ReplaceQuery(url, JoinParams(extra_query_params))
    ELSE url

\* The normalization without its second truncation.
NormalizeQueryOnly(link) ==
    IF ignore_query_params THEN SplitHead(link, "?") ELSE link

\* link.split("?")[0] and link.split("#")[0], each under its flag.
Normalize(link) ==
    LET l1 == IF ignore_query_params THEN SplitHead(link, "?") ELSE link
    IN  IF ignore_fragment THEN SplitHead(l1, "#") ELSE l1

\* self.download_filter(link)
DownloadFilter(link) ==
    IF download_filter.kind = "endswith" THEN EndsWith(link, download_filter.arg)
    ELSE download_filter.kind = "all"

\* The download admission without the predicate.
AdmitDownloadUnfiltered(link, dl) == dl \cup {link}

\* The download admission kept for the links of a followable host.
AdmitDownloadSameDomain(link, dl) ==
    IF /\ link \notin dl
       /\ DownloadFilter(link)
       /\ UrlNetloc(link) \in followable_domains
    THEN dl \cup {link} ELSE dl

\* The download_links after the download admission of a normalized link.
AdmitDownload(link, dl) ==
    IF link \notin dl /\ DownloadFilter(link) THEN dl \cup {link} ELSE dl

RuleMatches(rule, path) ==
    IF rule.kind = "str" THEN StartsWith(path, rule.prefix)
    ELSE StartsWith(path, rule.source)

\* The loop over followable_paths without its break: the last match counts.
LastMatch(path) ==
    IF IsNone(followable_paths) THEN 0
    ELSE LET rules == Val(followable_paths)
             hits == {i \in 1..Len(rules) : RuleMatches(rules[i], path)}
         IN  IF hits = {} THEN 0
             ELSE CHOOSE i \in hits : \A j \in hits : i >= j

\* The index of the first rule of followable_paths the path matches, else 0.
FirstMatch(path) ==
    IF IsNone(followable_paths) THEN 0
    ELSE LET rules == Val(followable_paths)
             hits == {i \in 1..Len(rules) : RuleMatches(rules[i], path)}
         IN  IF hits = {} THEN 0
             ELSE CHOOSE i \in hits : \A j \in hits : i <= j

Follow(link) == IsNone(followable_paths) \/ FirstMatch(UrlPath(link)) # 0

\* The loop over followable_paths without the replacement.
RewrittenNot(link) == link

\* The link after the loop over followable_paths: replaced when the first
\* matching rule is a {source, target} rule.
Rewritten(link) ==
    LET m == FirstMatch(UrlPath(link))
    IN  IF m # 0 /\ Val(followable_paths)[m].kind = "dict"
        THEN StrReplace(link, Val(followable_paths)[m].source,
                        Val(followable_paths)[m].target)
        ELSE link

Skip(link) ==
    \E i \in 1..Len(ignore_paths) : StartsWith(UrlPath(link), ignore_paths[i])

\* The admission without the test on links.
AdmittedAgain(link, visited) ==
    /\ Follow(link)
    /\ ~Skip(link)
    /\ UrlNetloc(link) \in followable_domains

\* if follow and not skip and link not in links and url_domain in
\* self.followable_domains, for a normalized link.
Admitted(link, visited) ==
    /\ Follow(link)
    /\ ~Skip(link)
    /\ Rewritten(link) \notin visited
    /\ UrlNetloc(link) \in followable_domains

(***************************************************************************)
(* The call stack of parse_links.                                          *)
(***************************************************************************)
Frame(url, depth) == [url |-> url, depth |-> depth, pc |-> "enter", todo |-> {}]

Top == stack[Len(stack)]

Pop == SubSeq(stack, 1, Len(stack) - 1)

Push(url, depth) == Append(stack, Frame(url, depth))

Record(bag, r) == bag (+) SetToBag({r})

(***************************************************************************)
(* run: the loop over the seeds.                                           *)
(***************************************************************************)
\* The loop over the seeds with a set links of its own for every seed.
StartSeedFresh ==
    /\ phase = "parse"
    /\ stack = <<>>
    /\ seed < Len(bootstrap_urls)
    /\ seed' = seed + 1
    /\ stack' = Push(bootstrap_urls[seed + 1], 0)
    /\ links' = {}
    /\ calls' = Record(calls, [url |-> bootstrap_urls[seed + 1], depth |-> 0,
                               seed |-> seed + 1])
    /\ UNCHANGED <<config, phase, error, download_links, pending,
                   files, fetches, filtered, attempts>>

\* for url in self.bootstrap_urls: self.parse_links(url, links, download_links)
StartSeed ==
    /\ phase = "parse"
    /\ stack = <<>>
    /\ seed < Len(bootstrap_urls)
    /\ seed' = seed + 1
    /\ stack' = Push(bootstrap_urls[seed + 1], 0)
    /\ calls' = Record(calls, [url |-> bootstrap_urls[seed + 1], depth |-> 0,
                               seed |-> seed + 1])
    /\ UNCHANGED <<config, phase, error, links, download_links, pending,
                   files, fetches, filtered, attempts>>

\* The status test that lets every response through.
StatusOkAny(response) == TRUE

\* response.status_code != 200 returns
StatusOk(response) == response.status = 200

(***************************************************************************)
(* parse_links, from its entry to the start of the loop over the links of  *)
(* the page: the three guards, the request, the status and content type.   *)
(***************************************************************************)
ParseLinksEnter ==
    /\ phase = "parse"
    /\ stack # <<>>
    /\ Top.pc = "enter"
    /\ \E req \in {RequestUrl(Top.url)} : \E response \in {Get(req)} :
           IF \/ DepthGuard(Top.depth)
              \/ VolumeGuard(download_links)
              \/ ~DomainAdmitted(Top.url)
           THEN /\ stack' = Pop
                /\ UNCHANGED <<phase, error, fetches>>
           ELSE /\ fetches' = Record(fetches, [url |-> Top.url, req |-> req,
                                               depth |-> Top.depth])
                /\ IF ~StatusOk(response)
                   THEN stack' = Pop /\ UNCHANGED <<phase, error>>
                   ELSE IF IsNone(response.ctype)
                   \* 'text/html' in None raises TypeError
                   THEN /\ phase' = "raised"
                        /\ error' = "TypeError"
                        /\ UNCHANGED stack
                   ELSE IF Contains(Val(response.ctype), "text/html")
                   THEN /\ stack' = [stack EXCEPT ![Len(stack)] =
                                       [@ EXCEPT !.pc = "loop",
                                                 !.todo = response.links]]
                        /\ UNCHANGED <<phase, error>>
                   ELSE stack' = Pop /\ UNCHANGED <<phase, error>>
    /\ UNCHANGED <<config, seed, links, download_links, pending, files,
                   calls, filtered, attempts>>

(***************************************************************************)
(* One iteration of the loop over response.html.absolute_links, a set: the *)
(* next link is any link not yet iterated.  The recursive call is a new    *)
(* frame.                                                                  *)
(***************************************************************************)
ProcessLink ==
    /\ phase = "parse"
    /\ stack # <<>>
    /\ Top.pc = "loop"
    /\ \E raw \in Top.todo :
         IF VolumeRecheck(download_links)
         THEN \* break
              /\ stack' = Pop
              /\ UNCHANGED <<links, download_links, calls, filtered>>
         ELSE \E link \in {Normalize(raw)} :
              LET rest == [stack EXCEPT ![Len(stack)].todo = @ \ {raw}]
              IN  /\ download_links' = AdmitDownload(link, download_links)
                  /\ filtered' = IF link \in download_links THEN filtered
                                 ELSE Record(filtered, link)
                  /\ IF Admitted(link, links)
                     THEN /\ links' = links \cup {Rewritten(link)}
                          /\ stack' = Append(rest, Frame(Rewritten(link),
                                                         Top.depth + 1))
                          /\ calls' = Record(calls,
                                             [url |-> Rewritten(link),
                                              depth |-> Top.depth + 1,
                                              seed |-> seed])
                     ELSE /\ stack' = rest
                          /\ UNCHANGED <<links, calls>>
    /\ UNCHANGED <<config, phase, error, seed, pending, files, fetches,
                   attempts>>

\* The loop is exhausted: parse_links returns.
FinishPage ==
    /\ phase = "parse"
    /\ stack # <<>>
    /\ Top.pc = "loop"
    /\ Top.todo = {}
    /\ stack' = Pop
    /\ UNCHANGED <<config, phase, error, seed, links, download_links,
                   pending, files, history>>

(***************************************************************************)
(* run: the download phase, and download.                                  *)
(***************************************************************************)
StartDownloads ==
    /\ phase = "parse"
    /\ stack = <<>>
    /\ seed = Len(bootstrap_urls)
    /\ phase' = "download"
    /\ pending' = download_links
    /\ UNCHANGED <<config, error, seed, stack, links, download_links, files,
                   history>>

\* What iter_content delivers for url.
Body(url) == "<" \o url \o ">"

\* url.split("/")[-1]
TargetName(url) == SplitLast(url, "/")

\* open(target_path, "wb") creates or truncates the file before the request;
\* on a failure response the function returns and the file stays empty.
Written(url, ok) == (TargetName(url) :> (IF ok THEN Body(url) ELSE "")) @@ files

Download ==
    /\ phase = "download"
    /\ \E url \in pending :
         /\ pending' = pending \ {url}
         /\ IF TargetName(url) = ""
            \* the target path is the save directory: open raises
            THEN /\ phase' = "raised"
                 /\ error' = "IsADirectoryError"
                 /\ attempts' = Record(attempts, [url |-> url, result |-> "raised"])
                 /\ UNCHANGED files
            ELSE LET ok == Get(url).status < 400
                 IN  /\ files' = Written(url, ok)
                     /\ attempts' = Record(attempts,
                                           [url |-> url,
                                            result |-> IF ok THEN "ok" ELSE "failed"])
                     /\ UNCHANGED <<phase, error>>
    /\ UNCHANGED <<config, seed, stack, links, download_links, fetches,
                   calls, filtered>>

Finish ==
    /\ phase = "download"
    /\ pending = {}
    /\ phase' = "done"
    /\ UNCHANGED <<config, error, seed, stack, links, download_links, pending,
                   files, history>>

(***************************************************************************)
(* The runs explored: sites (a web, its seeds and the admission rules),    *)
(* each under every combination of the two bounds and the two predicates.  *)
(***************************************************************************)
StrRule(p) == [kind |-> "str", prefix |-> p]
DictRule(s, t) == [kind |-> "dict", source |-> s, target |-> t]

\* The keyword defaults of __init__, for the host "h".
Site(w, seeds) ==
    [web |-> w, bootstrap_urls |-> seeds, followable_domains |-> {"h"},
     followable_paths |-> None, ignore_paths |-> <<>>,
     ignore_query_params |-> TRUE, ignore_fragment |-> TRUE,
     extra_query_params |-> <<>>]

\* A <-> B
CycleWeb ==
    ("https://h/A" :> Page({"https://h/B"})) @@
    ("https://h/B" :> Page({"https://h/A"}))

CycleSites ==
    {Site(CycleWeb, seeds) : seeds \in {<<"https://h/A">>,
                                        <<"https://h/A", "https://h/B">>,
                                        <<"https://h/B", "https://h/B">>}}

\* p1 -> p2 -> ... -> pn
Digits == <<"1", "2", "3", "4", "5", "6", "7", "8", "9">>
ChainUrl(i) == "https://h/p" \o Digits[i]
ChainLen(d) == d + 5
ChainWeb(n) ==
    [u \in {ChainUrl(i) : i \in 1..n} |->
        LET i == CHOOSE j \in 1..n : ChainUrl(j) = u
        IN  Page(IF i < n THEN {ChainUrl(i + 1)} ELSE {})]

ChainSite(d) == Site(ChainWeb(ChainLen(d)), <<ChainUrl(1)>>)

\* The seed page links a document and a second page that links another.
ShopWeb ==
    ("https://h/" :> Page({"https://h/a.pdf", "https://h/page2"})) @@
    ("https://h/page2" :> Page({"https://h/b.pdf"})) @@
    ("https://h/a.pdf" :> Doc) @@
    ("https://h/b.pdf" :> Doc)

ShopSites ==
    {Site(ShopWeb, seeds) : seeds \in {<<"https://h/">>,
                                       <<"https://h/page2", "https://h/">>,
                                       <<"https://h/", "https://h/page2">>}}

\* Links under /a, one of them with /a twice, and one whose path starts
\* with the name of the host.
RewriteWeb ==
    ("https://h/r" :> Page({"https://h/a/doc.pdf", "https://h/a/x/a/y",
                            "https://h/h/i"})) @@
    ("https://h/a/doc.pdf" :> Doc) @@
    ("https://h/b/doc.pdf" :> Doc) @@
    ("https://h/a/x/a/y" :> Page({"https://h/b/doc.pdf"})) @@
    ("https://h/b/x/b/y" :> Page({"https://h/a/doc.pdf"})) @@
    ("https://h/h/i" :> Page({}))

RuleLists ==
    {<<DictRule("/a", "/b")>>,
     <<StrRule("/a/x"), DictRule("/a", "/b")>>,
     <<DictRule("/a", "/b"), DictRule("/b", "/c"), StrRule("/h")>>,
     <<DictRule("/h", "/g")>>}

RewriteSites ==
    {[Site(RewriteWeb, <<"https://h/r">>) EXCEPT
        !.followable_paths = Some(rules), !.ignore_paths = ign] :
        rules \in RuleLists, ign \in {<<>>, <<"/a/x">>}}

\* Two documents with the same file name, the second not served, and a
\* link that ends with "/".
MirrorWeb ==
    ("https://h/m" :> Page({"https://h/v1/doc.pdf", "https://h/v2/doc.pdf",
                            "https://h/dir/"})) @@
    ("https://h/v1/doc.pdf" :> Doc) @@
    ("https://h/dir/" :> Page({}))

MirrorSites == {Site(MirrorWeb, <<"https://h/m">>)}

\* Links with a query and a fragment.
QueryWeb ==
    ("https://h/n" :> Page({"https://h/x?lang=en", "https://h/x#top",
                            "https://h/y.pdf?v=1#p"})) @@
    ("https://h/x" :> Page({"https://h/n?back=1"})) @@
    ("https://h/y.pdf" :> Doc)

QuerySites ==
    {[Site(QueryWeb, <<"https://h/n">>) EXCEPT
        !.ignore_query_params = q, !.ignore_fragment = f,
        !.extra_query_params = x] :
        q \in BOOLEAN, f \in BOOLEAN,
        x \in {<<>>, << <<"lang", "zh">> >>,
                     << <<"lang", "zh">>, <<"ver", "2">> >>}}

\* Links to the host "x", which is not followable.
ForeignWeb ==
    ("https://h/d" :> Page({"https://x/e.pdf", "https://h/f", "https://x/g"})) @@
    ("https://h/f" :> Page({"https://x/g"})) @@
    ("https://x/g" :> Page({"https://h/secret"})) @@
    ("https://x/e.pdf" :> Doc) @@
    ("https://h/secret" :> Page({}))

ForeignSites ==
    {Site(ForeignWeb, seeds) : seeds \in {<<"https://h/d">>,
                                          <<"https://x/g", "https://h/d">>}}

\* A page that is gone, and a response without a Content-Type header.
BrokenWeb(raw) ==
    ("https://h/s" :> Page({"https://h/gone", "https://h/ok"} \cup raw)) @@
    ("https://h/gone" :> NotFound({"https://h/never"})) @@
    ("https://h/raw" :> NoType({"https://h/hidden"})) @@
    ("https://h/ok" :> Page({"https://h/fine.pdf"})) @@
    ("https://h/fine.pdf" :> Doc)

BrokenSites ==
    {Site(BrokenWeb(raw), seeds) :
        raw \in {{}, {"https://h/raw"}},
        seeds \in {<<"https://h/s">>, <<"https://h/gone", "https://h/s">>}}

\* S -> A -> B -> C and S -> B
DiamondWeb ==
    ("https://h/S" :> Page({"https://h/A", "https://h/B"})) @@
    ("https://h/A" :> Page({"https://h/B"})) @@
    ("https://h/B" :> Page({"https://h/C"})) @@
    ("https://h/C" :> Page({}))

DiamondSites == {Site(DiamondWeb, <<"https://h/S">>)}

Sites ==
    CycleSites \cup ShopSites \cup RewriteSites \cup MirrorSites
      \cup QuerySites \cup ForeignSites \cup BrokenSites \cup DiamondSites

DepthOptions == {None, Some(0)} \cup {Some(d) : d \in 1..MaxDepthBound}

DownloadOptions == {None, Some(0)} \cup {Some(k) : k \in 1..MaxDownloadBound}

Filters == {[kind |-> "endswith", arg |-> ".pdf"], [kind |-> "all", arg |-> ""]}

\* The state when run starts, for one site and one choice of the bounds.
Start(site, md, mk, flt) ==
    /\ web = site.web
    /\ bootstrap_urls = site.bootstrap_urls
    /\ followable_domains = site.followable_domains
    /\ followable_paths = site.followable_paths
    /\ ignore_paths = site.ignore_paths
    /\ ignore_query_params = site.ignore_query_params
    /\ ignore_fragment = site.ignore_fragment
    /\ extra_query_params = site.extra_query_params
    /\ max_depth = md
    /\ max_download = mk
    /\ download_filter = flt
    /\ phase = "parse"
    /\ error = ""
    /\ seed = 0
    /\ stack = <<>>
    /\ links = {}
    /\ download_links = {}
    /\ pending = {}
    /\ files = <<>>
    /\ fetches = EmptyBag
    /\ calls = EmptyBag
    /\ filtered = EmptyBag
    /\ attempts = EmptyBag

Init ==
    \/ \E site \in Sites, md \in DepthOptions, mk \in DownloadOptions,
          flt \in Filters : Start(site, md, mk, flt)
    \/ \E d \in 1..MaxDepthBound, mk \in DownloadOptions, flt \in Filters :
          Start(ChainSite(d), Some(d), mk, flt)

Next ==
    \/ StartSeed
    \/ ParseLinksEnter
    \/ ProcessLink
    \/ FinishPage
    \/ StartDownloads
    \/ Download
    \/ Finish

Spec == Init /\ [][Next]_vars

\* ENABLED <<ParseLinksEnter>>_vars: a call is at its entry; every branch of
\* the step changes stack or phase.
ParseLinksEnterEnabled == phase = "parse" /\ stack # <<>> /\ Top.pc = "enter"

\* ENABLED <<ProcessLink>>_vars: the loop has a link left; the step changes
\* stack.
ProcessLinkEnabled ==
    phase = "parse" /\ stack # <<>> /\ Top.pc = "loop" /\ Top.todo # {}

\* run is a sequential program: it takes its next step as long as it has
\* one.  Weak fairness of every step; for the two steps of parse_links it is
\* written out, []<>~ENABLED <<A>>_vars \/ []<><<A>>_vars, with the
\* enabling condition given by the guard.
FairSpec ==
    /\ Spec
    /\ WF_vars(StartSeed)
    /\ WF_vars(FinishPage)
    /\ WF_vars(StartDownloads)
    /\ WF_vars(Download)
    /\ WF_vars(Finish)
    /\ ([]<>~ParseLinksEnterEnabled \/ []<><<ParseLinksEnter>>_vars)
    /\ ([]<>~ProcessLinkEnabled \/ []<><<ProcessLink>>_vars)

(***************************************************************************)
(* Properties.                                                             *)
(***************************************************************************)
\* The requests parse_links made for url, and the calls it received.
FetchesOf(url) == {r \in BagToSet(fetches) : r.url = url}
CallsOf(url) == {r \in BagToSet(calls) : r.url = url}
FetchedUrls == {r.url : r \in BagToSet(fetches)}

\* The links the predicate was called with.
FilterArgs == BagToSet(filtered)

FetchedOnce(url) ==
    /\ Cardinality(FetchesOf(url)) = 1
    /\ \A r \in FetchesOf(url) : CopiesIn(r, fetches) = 1

TraversalOver == phase \in {"download", "done"}

\* A download bound is set and download_links has reached it.
DownloadBoundReached ==
    TruthyInt(max_download) /\ Cardinality(download_links) >= Val(max_download)

\* C1: in one run every url is fetched at most once, and a url that has been
\* added to links is not traversed again; crawling the cycle A -> B -> A
\* from the seed A without bounds fetches A and B exactly once each.
C1_AtMostOnceTraversal ==
    /\ [](\A u \in FetchedUrls : FetchedOnce(u))
    /\ [][\A u \in links : \A r \in BagToSet(calls') :
            r.url = u => /\ r \in BagToSet(calls)
                         /\ CopiesIn(r, calls') = CopiesIn(r, calls)]_vars
    /\ [](/\ web = CycleWeb
          /\ bootstrap_urls = <<"https://h/A">>
          /\ ~TruthyInt(max_depth)
          /\ ~TruthyInt(max_download)
          /\ TraversalOver
          => FetchedOnce("https://h/A") /\ FetchedOnce("https://h/B"))

\* C2: under max_depth = d >= 1 no request is made by a call of parse_links
\* at a depth >= d; on the chain of d + 5 pages crawled from its first page,
\* with the download bound never reached, exactly the first d pages are
\* fetched, once each.
C2_DepthBound ==
    /\ TruthyInt(max_depth)
       => \A r \in BagToSet(fetches) : r.depth < Val(max_depth)
    /\ \A d \in 1..MaxDepthBound :
         (/\ web = ChainWeb(ChainLen(d))
          /\ bootstrap_urls = <<ChainUrl(1)>>
          /\ max_depth = Some(d)
          /\ ~DownloadBoundReached
          /\ TraversalOver)
         => /\ FetchedUrls = {ChainUrl(i) : i \in 1..d}
            /\ \A u \in FetchedUrls : FetchedOnce(u)

C2_Witness ==
    /\ web = ChainWeb(ChainLen(MaxDepthBound))
    /\ max_depth = Some(MaxDepthBound)
    /\ phase = "done"
    /\ FetchedUrls = {ChainUrl(i) : i \in 1..MaxDepthBound}
    /\ ChainUrl(MaxDepthBound + 1) \in links

\* C3: under max_download = k >= 1 download_links never holds more than k
\* links, whatever the web, the seeds and the predicate, and once it holds k
\* links no step adds another.
C3_VolumeBound ==
    /\ [](TruthyInt(max_download)
            => Cardinality(download_links) <= Val(max_download))
    /\ [][DownloadBoundReached => download_links' = download_links]_vars

C3_Witness ==
    /\ download_filter.kind = "all"
    /\ Len(bootstrap_urls) > 1
    /\ TruthyInt(max_download)
    /\ Cardinality(download_links) = Val(max_download)
    /\ phase = "parse"
    /\ stack # <<>>
    /\ Top.pc = "loop"
    /\ Top.todo # {}

\* C4: a url whose host is not in followable_domains, a seed, a link of a
\* page or a link made by a {source, target} rule, is never requested and
\* is never in links.
C4_DomainGate ==
    /\ \A r \in BagToSet(fetches) : UrlNetloc(r.url) \in followable_domains
    /\ \A u \in links : UrlNetloc(u) \in followable_domains

\* A step of ProcessLink that got past the volume check, and its link.
IsLinkStep ==
    /\ phase = "parse"
    /\ stack # <<>>
    /\ Top.pc = "loop"
    /\ Len(stack') >= Len(stack)
    /\ stack'[Len(stack)].todo # Top.todo

ProcessedLinks == Top.todo \ stack'[Len(stack)].todo

\* The first rule the path matches is rules[i], a {source, target} rule.
FirstMatchIsRewrite(rules, i, path) ==
    /\ rules[i].kind = "dict"
    /\ StartsWith(path, rules[i].source)
    /\ \A j \in 1..(i - 1) : ~RuleMatches(rules[j], path)

\* C5: when the first rule matching the path of a link is a rule
\* {source, target}, the link is not skipped and its host is followable, it
\* is the link with source replaced by target that is looked up in links,
\* added to links and given to the recursive call, and the link as found is
\* not added; under the rule {"/a", "/b"} the link https://h/a/doc.pdf is
\* followed as https://h/b/doc.pdf and is itself neither added nor fetched.
C5_PathRewrite ==
    /\ [][IsLinkStep /\ ~IsNone(followable_paths) =>
            \A raw \in ProcessedLinks :
              LET link == Normalize(raw)
                  rules == Val(followable_paths)
              IN  \A i \in 1..Len(rules) :
                    (/\ FirstMatchIsRewrite(rules, i, UrlPath(link))
                     /\ ~Skip(link)
                     /\ UrlNetloc(link) \in followable_domains)
                    => LET to == StrReplace(link, rules[i].source, rules[i].target)
                       IN  IF to \in links
                           THEN links' = links /\ Len(stack') = Len(stack)
                           ELSE /\ links' = links \cup {to}
                                /\ Len(stack') = Len(stack) + 1
                                /\ stack'[Len(stack')].url = to
                                /\ stack'[Len(stack')].depth = Top.depth + 1]_vars
    /\ [](/\ web = RewriteWeb
          /\ followable_paths = Some(<<DictRule("/a", "/b")>>)
          => /\ "https://h/a/doc.pdf" \notin links
             /\ FetchesOf("https://h/a/doc.pdf") = {}
             /\ "https://h/a/doc.pdf" \in FilterArgs
                  => /\ "https://h/b/doc.pdf" \in links
                     /\ CallsOf("https://h/b/doc.pdf") # {})

C5_Witness ==
    /\ web = RewriteWeb
    /\ followable_paths = Some(<<DictRule("/a", "/b")>>)
    /\ phase = "done"
    /\ "https://h/a/doc.pdf" \in FilterArgs
    /\ "https://h/b/doc.pdf" \in links
    /\ FetchedOnce("https://h/b/doc.pdf")
    /\ FetchesOf("https://h/a/doc.pdf") = {}

\* C6: every link is cut at its first "?" (under ignore_query_params) and
\* at its first "#" (under ignore_fragment) before the predicate sees it and
\* before it is looked up in or added to download_links or links: none of
\* these holds a "?", respectively a "#", under the flag.
C6_Normalized ==
    \A u \in download_links \cup links \cup FilterArgs :
        /\ ignore_query_params => ~Contains(u, "?")
        /\ ignore_fragment => ~Contains(u, "#")

C6_Witness ==
    /\ web = QueryWeb
    /\ ignore_query_params
    /\ ignore_fragment
    /\ phase = "done"
    /\ "https://h/x" \in links
    /\ "https://h/y.pdf" \in download_links
    /\ FilterArgs = {"https://h/x", "https://h/y.pdf", "https://h/n"}

\* The requests answered 200 with an HTML content type, and the normalized
\* links of their pages that the predicate accepts.
HtmlFetches ==
    {r \in BagToSet(fetches) :
        /\ Get(r.req).status = 200
        /\ ~IsNone(Get(r.req).ctype)
        /\ Contains(Val(Get(r.req).ctype), "text/html")}

ExpectedDownloads ==
    {l \in {Normalize(raw) : raw \in UNION {Get(r.req).links : r \in HtmlFetches}} :
        DownloadFilter(l)}

\* The step is the call download(u).
IsDownloadOf(u) == phase = "download" /\ u \in pending /\ pending' = pending \ {u}

TraversalResult == (TraversalOver /\ ~DownloadBoundReached) => download_links = ExpectedDownloads

\* C7, as stated: when no bound takes effect, download_links is at the end
\* of the traversal exactly the normalized links of the fetched HTML pages
\* that satisfy the predicate, and the download phase persists each of them
\* under its final path segment.
C7_PersistsEach ==
    /\ []TraversalResult
    /\ [][(~TruthyInt(max_depth) /\ ~DownloadBoundReached) =>
            \A u \in pending :
               IsDownloadOf(u) => /\ TargetName(u) \in DOMAIN files'
                                  /\ files'[TargetName(u)] = Body(u)]_vars

\* C7, amended: the same result of the traversal, and every call of download
\* that receives a success response writes the body to the file named by
\* the final path segment of its url, leaving the other files as they were.
C7_TraversalResult ==
    /\ []TraversalResult
    /\ [][\A u \in pending :
            (IsDownloadOf(u)
               /\ attempts' = Record(attempts, [url |-> u, result |-> "ok"]))
            => files' = (SplitLast(u, "/") :> Body(u)) @@ files]_vars

C7_Witness ==
    /\ web = ShopWeb
    /\ bootstrap_urls = <<"https://h/">>
    /\ download_filter.kind = "endswith"
    /\ phase = "done"
    /\ download_links = {"https://h/a.pdf", "https://h/b.pdf"}
    /\ files = ("a.pdf" :> Body("https://h/a.pdf")) @@
               ("b.pdf" :> Body("https://h/b.pdf"))

\* C8: a call of download that receives a failure response leaves the save
\* directory as it was: it creates no file and does not change the file of
\* the same name written by an earlier call.
C8_FailedPersistUntouched ==
    [][\A u \in pending :
          (IsDownloadOf(u)
             /\ attempts' = Record(attempts, [url |-> u, result |-> "failed"]))
          => files' = files]_vars

\* C9: the download phase calls download exactly once for every url of the
\* final download_links, a failure for one url does not keep the others
\* from being attempted, and the phase runs to completion.
C9_DownloadPhaseCompletes ==
    /\ [][phase = "download" => phase' \in {"download", "done"}]_vars
    /\ [](phase = "done" =>
            \A u \in download_links :
               \E r \in BagToSet(attempts) :
                  /\ r.url = u
                  /\ CopiesIn(r, attempts) = 1
                  /\ \A q \in BagToSet(attempts) : q.url = u => q = r)

\* C10: links and download_links are made once per run and shared by the
\* traversals of all the seeds, every seed starts at depth 0, and no link is
\* added to links or traversed recursively twice, also not under a later
\* seed.
C10_SharedAcrossSeeds ==
    /\ [][phase = "parse" =>
            links \subseteq links' /\ download_links \subseteq download_links']_vars
    /\ [](stack # <<>> =>
            /\ stack[1].depth = 0
            /\ stack[1].url = bootstrap_urls[seed]
            /\ \A i \in 2..Len(stack) : stack[i].depth = stack[i - 1].depth + 1)
    /\ [](\A r \in BagToSet(calls) :
            r.depth > 0 =>
               /\ CopiesIn(r, calls) = 1
               /\ r.url \in links
               /\ \A q \in CallsOf(r.url) : q.depth > 0 => q = r)

C10_Witness ==
    /\ web = CycleWeb
    /\ bootstrap_urls = <<"https://h/A", "https://h/B">>
    /\ phase = "done"
    /\ [url |-> "https://h/B", req |-> "https://h/B", depth |-> 0]
          \in BagToSet(fetches)
    /\ CallsOf("https://h/A") =
          {[url |-> "https://h/A", depth |-> 0, seed |-> 1],
           [url |-> "https://h/A", depth |-> 2, seed |-> 1]}

\* C11: a bound of 0 is a bound: under max_depth = 0 the call for a seed
\* returns before any request, and under max_download = 0 every call returns
\* before any request and download_links stays empty.
C11_ZeroBoundEnforced ==
    /\ max_depth = Some(0) => fetches = EmptyBag
    /\ max_download = Some(0) => fetches = EmptyBag /\ download_links = {}

\* s with only its first occurrence of old replaced by new.
ReplaceFirst(s, old, new) ==
    LET i == Find(s, old)
    IN  IF i = 0 THEN s
        ELSE SubSeq(s, 1, i - 1) \o new \o SubSeq(s, i + Len(old), Len(s))

\* C12: when a rule {source, target} rewrites a link, the link followed is
\* the link with its first occurrence of source replaced by target and every
\* later occurrence left as it is.
C12_RewriteFirstOccurrence ==
    [][IsLinkStep /\ ~IsNone(followable_paths) =>
         \A raw \in ProcessedLinks :
           LET link == Normalize(raw)
               rules == Val(followable_paths)
           IN  \A i \in 1..Len(rules) :
                 (/\ FirstMatchIsRewrite(rules, i, UrlPath(link))
                  /\ Len(stack') = Len(stack) + 1)
                 => stack'[Len(stack')].url =
                       ReplaceFirst(link, rules[i].source, rules[i].target)]_vars

\* rule matches the path: url_path.startswith(prefix or source).
MatchesPath(rule, path) ==
    StartsWith(path, IF rule.kind = "str" THEN rule.prefix ELSE rule.source)

\* What one loop step does with links and the stack when it follows `to`,
\* and when it follows nothing.
Follows(to) ==
    /\ links' = links \cup {to}
    /\ to \notin links
    /\ Len(stack') = Len(stack) + 1
    /\ stack'[Len(stack')].url = to

FollowsNothing == links' = links /\ Len(stack') = Len(stack)

\* C13: the rules are scanned in order and the scan stops at the first rule
\* whose prefix the path of the link starts with: under an earlier plain
\* prefix the link is followed as it is, also when a later {source, target}
\* rule matches; under a {source, target} rule it is rewritten by that rule
\* alone; a link that matches no rule is not followed.
C13_FirstMatchWins ==
    [][IsLinkStep /\ ~IsNone(followable_paths) =>
         \A raw \in ProcessedLinks :
           LET link == Normalize(raw)
               path == UrlPath(link)
               rules == Val(followable_paths)
               open == ~Skip(link) /\ UrlNetloc(link) \in followable_domains
           IN  /\ (\A i \in 1..Len(rules) : ~MatchesPath(rules[i], path))
                    => FollowsNothing
               /\ \A i \in 1..Len(rules) :
                    (/\ MatchesPath(rules[i], path)
                     /\ \A j \in 1..(i - 1) : ~MatchesPath(rules[j], path))
                    => LET to == IF rules[i].kind = "str" THEN link
                                 ELSE StrReplace(link, rules[i].source,
                                                 rules[i].target)
                       IN  IF open /\ to \notin links THEN Follows(to)
                           ELSE FollowsNothing]_vars

C13_Witness ==
    /\ web = RewriteWeb
    /\ followable_paths = Some(<<StrRule("/a/x"), DictRule("/a", "/b")>>)
    /\ phase = "done"
    /\ FetchedOnce("https://h/a/x/a/y")
    /\ FetchedOnce("https://h/b/doc.pdf")
    /\ "https://h/h/i" \in FilterArgs
    /\ "https://h/h/i" \notin links

\* C14: a normalized link of a fetched HTML page is added to download_links
\* whenever the predicate accepts it (the bound not being reached), whatever
\* its host, the path rules and the ignore paths say; the string added is
\* the link before any rewrite; a link already in download_links is not
\* given to the predicate again.
C14_DownloadIndependentOfFollow ==
    /\ [][IsLinkStep =>
            \A raw \in ProcessedLinks :
              LET link == Normalize(raw)
              IN  /\ download_links' =
                        IF DownloadFilter(link) THEN download_links \cup {link}
                        ELSE download_links
                  /\ filtered' = IF link \in download_links THEN filtered
                                 ELSE filtered (+) SetToBag({link})]_vars
    /\ [](\A u \in download_links : CopiesIn(u, filtered) = 1)

C14_Witness ==
    /\ web = RewriteWeb
    /\ followable_paths = Some(<<DictRule("/a", "/b")>>)
    /\ ignore_paths = <<"/a/x">>
    /\ phase = "done"
    /\ download_links = {"https://h/a/doc.pdf", "https://h/a/x/a/y", "https://h/h/i"}
    /\ links = {"https://h/b/doc.pdf"}

\* A step of parse_links that issues the request of the call on top.
IsFetchStep == fetches' # fetches

\* C15: when the request of a parse_links call is answered with a status
\* other than 200 the call returns at once: the frame is popped, so the
\* frame below (the loop of the parent page, or run with the next seed)
\* goes on, links and download_links are as they were, the predicate is not
\* called and no error is raised; the links of the 404 page https://h/gone
\* are never seen.
C15_FailedFetchNoEffect ==
    /\ [][(IsFetchStep /\ Get(RequestUrl(Top.url)).status # 200) =>
            /\ stack' = Pop
            /\ phase' = "parse"
            /\ UNCHANGED <<links, download_links, filtered, calls, error,
                           files>>]_vars
    /\ []("https://h/never" \notin links \cup download_links \cup FilterArgs)
    /\ [](\A r \in BagToSet(fetches) : r.url # "https://h/never")

\* The first seed answered 404 and the run went on with the second seed,
\* whose page links to the 404 page again and then to a page with a document.
C15_Witness ==
    /\ bootstrap_urls = <<"https://h/gone", "https://h/s">>
    /\ web = BrokenWeb({})
    /\ phase = "done"
    /\ Cardinality(FetchesOf("https://h/gone")) >= 1
    /\ "https://h/ok" \in FetchedUrls
    /\ download_links = {"https://h/fine.pdf"}
    /\ error = ""

\* Some configured pair k=v occurs in the string.
CarriesInjected(u) ==
    \E i \in 1..Len(extra_query_params) :
        Contains(u, extra_query_params[i][1] \o "=" \o extra_query_params[i][2])

\* C16: with extra_query_params configured, the url requested has the
\* scheme, host, path and fragment of the url of the call and a query that
\* is exactly the configured pairs k=v joined by "&" in their order, whatever
\* query the url had; without them the url is requested as it is; and no
\* string of links or download_links, no url a call is made with and no link
\* given to the predicate carries a configured pair.
C16_QueryInjectedOnRequestOnly ==
    /\ \A r \in BagToSet(fetches) :
          IF extra_query_params = <<>> THEN r.req = r.url
          ELSE /\ UrlQuery(r.req) = JoinParams(extra_query_params)
               /\ UrlScheme(r.req) = UrlScheme(r.url)
               /\ UrlNetloc(r.req) = UrlNetloc(r.url)
               /\ UrlPath(r.req) = UrlPath(r.url)
               /\ UrlFragment(r.req) = UrlFragment(r.url)
    /\ \A u \in links \cup download_links \cup FilterArgs
                  \cup {r.url : r \in BagToSet(calls)} : ~CarriesInjected(u)

\* The link https://h/x?lang=en was followed with its query kept and was
\* requested with the two configured pairs in place of that query.
C16_Witness ==
    /\ web = QueryWeb
    /\ extra_query_params = << <<"lang", "zh">>, <<"ver", "2">> >>
    /\ ~ignore_query_params
    /\ phase = "done"
    /\ \E r \in BagToSet(fetches) :
          /\ r.url = "https://h/x?lang=en"
          /\ r.req = "https://h/x?lang=zh&ver=2"
    /\ "https://h/x?lang=en" \in links
    /\ "https://h/y.pdf?v=1#p" \in download_links

\* A step of the traversal phase in which download_links reaches the bound.
ReachesDownloadBound ==
    /\ phase = "parse"
    /\ ~DownloadBoundReached
    /\ DownloadBoundReached'

\* C17 as stated: from the moment download_links holds max_download >= 1
\* links, nothing is requested and nothing is added to links or
\* download_links during the traversal phase.  The moment is line 82 of the
\* iteration that adds the last link, so the rest of that iteration, lines
\* 83 to 114, adds nothing to links and requests nothing either.
C17_VolumeBoundHalts ==
    /\ [][(phase = "parse" /\ DownloadBoundReached) =>
            UNCHANGED <<links, download_links, fetches>>]_vars
    /\ [][ReachesDownloadBound => UNCHANGED <<links, fetches>>]_vars

\* C17: download_links never exceeds max_download >= 1; the iteration that
\* adds the last link requests nothing and adds to links at most that one
\* link, rewritten; and after that iteration nothing is requested and
\* nothing is added to links or download_links until the traversal phase
\* ends, in any loop and for any seed.
C17_VolumeBoundHaltsAfterLink ==
    /\ [][(phase = "parse" /\ DownloadBoundReached) =>
            UNCHANGED <<links, download_links, fetches>>]_vars
    /\ [][ReachesDownloadBound =>
            /\ fetches' = fetches
            /\ Cardinality(download_links') = Val(max_download)
            /\ links' \ links \subseteq
                  {Rewritten(l) : l \in download_links' \ download_links}]_vars

\* The link that filled download_links has been added to links too and
\* parse_links was called with it; the page of the caller has links left and
\* a seed is still to come.
C17_Witness ==
    /\ phase = "parse"
    /\ DownloadBoundReached
    /\ Len(stack) = 2
    /\ Top.pc = "enter"
    /\ Top.url \in links \cap download_links
    /\ Top.url \notin FetchedUrls
    /\ stack[1].todo # {}
    /\ seed < Len(bootstrap_urls)

\* C18: a response with status 200 and no Content-Type header is passed
\* over like a response that is not HTML: the call returns, links and
\* download_links are as they were, nothing is raised and the traversal
\* goes on.
C18_NoContentTypeSkipped ==
    /\ [][(/\ IsFetchStep
            /\ Get(RequestUrl(Top.url)).status = 200
            /\ IsNone(Get(RequestUrl(Top.url)).ctype)) =>
            /\ stack' = Pop
            /\ phase' = "parse"
            /\ UNCHANGED <<links, download_links, error>>]_vars
    /\ [](error # "TypeError")

\* The response to the request made for a url is a page: 200 with HTML.
IsHtmlPage(u) ==
    LET response == Get(RequestUrl(u))
    IN  /\ response.status = 200
        /\ ~IsNone(response.ctype)
        /\ Contains(Val(response.ctype), "text/html")

\* The urls the links of the page of u lead to, when they are admitted.
AdmittedFrom(u) ==
    IF DomainAdmitted(u) /\ IsHtmlPage(u)
    THEN {Rewritten(Normalize(raw)) : raw \in
            {l \in Get(RequestUrl(u)).links : Admitted(Normalize(l), {})}}
    ELSE {}

\* The urls reachable from a seed through a chain of at most k admitted
\* links, every page on the chain answering 200 with HTML.
RECURSIVE Reach(_)
Reach(k) ==
    IF k = 0
    THEN {bootstrap_urls[i] : i \in 1..Len(bootstrap_urls)}
    ELSE Reach(k - 1) \cup UNION {AdmittedFrom(u) : u \in Reach(k - 1)}

\* C19: with max_depth = d set and download_links below its bound, when the
\* traversal phase is over every url of a followable host that is reachable
\* from a seed through fewer than d admitted links has been requested, in
\* whatever order the links of a page were iterated.
C19_CoverageWithinDepth ==
    (/\ TraversalOver
     /\ TruthyInt(max_depth)
     /\ ~DownloadBoundReached)
      => \A u \in Reach(Val(max_depth) - 1) :
            DomainAdmitted(u) => u \in FetchedUrls

\* A step in which parse_links calls itself.
IsRecursiveCall == stack # <<>> /\ Len(stack') = Len(stack) + 1

\* C20: with max_depth and max_download unset the traversal phase comes to
\* an end on every web and every seed list, cyclic webs included; every
\* recursive call of parse_links is made with a url that was not in links
\* and is added to links by the same step, and links never loses a url.
C20_TraversalTerminates ==
    /\ (IsNone(max_depth) /\ IsNone(max_download)) => <>(phase # "parse")
    /\ [][IsRecursiveCall =>
            /\ stack'[Len(stack')].url \notin links
            /\ links' = links \cup {stack'[Len(stack')].url}]_vars
    /\ [][links \subseteq links']_vars

\* The traversal of the cycle A <-> B without bounds has ended.
C20_Witness ==
    /\ web = CycleWeb
    /\ bootstrap_urls = <<"https://h/A">>
    /\ IsNone(max_depth)
    /\ IsNone(max_download)
    /\ phase = "download"
    /\ links = {"https://h/A", "https://h/B"}
    /\ Cardinality(BagToSet(calls)) = 3
====
